---- MODULE Spec2Model ----
(***************************************************************************)
(* Lecture unlock and payment/enrollment reconciliation of the LMS server. *)
(* The relational tables are sets of rows; every request handler is one    *)
(* action that performs all the writes the handler performs.               *)
(***************************************************************************)
EXTENDS Integers, Sequences, FiniteSets, TLC

\* ------------------------------------------------------------------ bounds
MaxLectures == 4
MaxOrders == 2
MaxPosition == 2
MaxReorderLen == 2
MaxRequests == 4

\* ------------------------------------------------------------ id universes
\* Local user ids (user.id) and the Clerk ids carried by the auth token.
Users == {"u1", "u2"}
ClerkIds == {"k1", "k2"}
ClerkIdOf == [u1 |-> "k1", u2 |-> "k2"]
\* Rows of the Course table; "c0" is a course id that names no row.
Courses == {"c1", "c2"}
CourseIdInputs == Courses \cup {"c0"}
\* Course.price: c1 is for sale, c2 has no price set.
CoursePrice == [c1 |-> 499, c2 |-> 0]
LectureIds == 1..MaxLectures
\* The tokens the progress requests are drawn from: those of the first
\* student; the second student takes part through the order handlers.
ProgressCallers == {"k1"}
OrderIds == 1..MaxOrders
NoOrder == 0

VARIABLES
    lectures,       \* table lectures: rows [id, courseId, position, isFree]
    nextLectureId,  \* ids are fresh cuids: an id is never used twice
    orders,         \* table orders: rows [id, courseId, studentId, status, isPaid,
                    \*   paidAt, razorpayPaymentId]
    gateway,        \* the payment gateway's own record of each order id
    enrollments,    \* table user_course_enrollments: rows [userId, courseId, orderId]
    progress,       \* table user_lecture_progress
    last,           \* the request served last and its outcome
    requests,       \* the number of requests served so far
    calls           \* the calls in flight at the same time, each with its position

vars == <<lectures, nextLectureId, orders, gateway, enrollments, progress, last, requests, calls>>
db == <<lectures, orders, enrollments, progress>>

NoRequest ==
    [op |-> "none", res |-> "none", user |-> "-", course |-> "-", order |-> 0,
     alreadyPaid |-> FALSE, redelivery |-> FALSE]

\* ------------------------------------------------------- calls in flight
\* Two deliveries of a payment confirmation (the gateway's webhook retry and
\* the client's verify call) and one progress request of the student.
RaceProcs == {"webhook", "client", "student"}

\* No call: the record of a process that has nothing in flight.
NoCall ==
    [op |-> "none", pc |-> "done", user |-> "-", course |-> "-", order |-> 0,
     lecture |-> 0, pay |-> "-", at |-> 0, todo |-> {}, res |-> "none", raced |-> FALSE]

NoCalls == [p \in RaceProcs |-> NoCall]

\* ---------------------------------------------------------------- helpers
UserByClerkId(k) == {u \in Users : ClerkIdOf[u] = k}

\* resolveUserId: the service is built with a user repository, so the id it
\* is given is looked up as a Clerk id; an id that is no Clerk id throws.
ResolveUserId(id) == UserByClerkId(id)

CourseLectures(L, c) == {r \in L : r.courseId = c}

LectureExists(L, l) == \E r \in L : r.id = l

\* The rows in ascending position, in every order that equal positions allow.
RECURSIVE SortedSeqs(_)
SortedSeqs(rows) ==
    IF rows = {} THEN {<<>>}
    ELSE LET firsts == {r \in rows : \A q \in rows : r.position <= q.position}
         IN UNION {{<<r>> \o t : t \in SortedSeqs(rows \ {r})} : r \in firsts}

\* Every order in which sort() by position may leave the course's lectures:
\* the relation include carries no orderBy, so equal positions may come out
\* in either order.
SortedLectures(L, c) == SortedSeqs(CourseLectures(L, c))

IndexOf(sq, l) ==
    IF \E i \in DOMAIN sq : sq[i].id = l
    THEN CHOOSE i \in DOMAIN sq : sq[i].id = l
    ELSE 0

FindProgress(P, u, l) == {r \in P : r.userId = u /\ r.lectureId = l}

FindEnrollment(E, u, c) == {r \in E : r.userId = u /\ r.courseId = c}

FindByRazorpayOrderId(O, o) == {r \in O : r.id = o}

\* getUserLectureProgress resolves the id it is given once more; a failed
\* resolution is caught and answered with null (the empty set here).
GetUserLectureProgress(P, id, l) ==
    UNION {FindProgress(P, u, l) : u \in ResolveUserId(id)}

\* The foreign keys of user_lecture_progress: the user, the lecture and the
\* course must exist, otherwise the upsert throws.
ProgressKeysExist(L, u, l, c) == u \in Users /\ LectureExists(L, l) /\ c \in Courses

Field(data, f, dflt) == IF f \in DOMAIN data THEN data[f] ELSE dflt

\* An upsert that writes the whole row from the given data, as its create
\* branch does, also over a row that exists.
ReplaceLectureProgress(P, u, l, c, data) ==
    (P \ FindProgress(P, u, l)) \cup
        {[userId |-> u, lectureId |-> l, courseId |-> c,
          isCompleted |-> Field(data, "isCompleted", FALSE),
          isUnlocked |-> Field(data, "isUnlocked", FALSE)]}

\* upsertLectureProgress: update spreads the given data over the row, create
\* fills the missing flags with false.
UpsertLectureProgress(P, u, l, c, data) ==
    LET old == FindProgress(P, u, l)
    IN IF old = {}
       THEN P \cup {[userId |-> u, lectureId |-> l, courseId |-> c,
                     isCompleted |-> Field(data, "isCompleted", FALSE),
                     isUnlocked |-> Field(data, "isUnlocked", FALSE)]}
       ELSE (P \ old) \cup
            {[r EXCEPT !.isCompleted = Field(data, "isCompleted", r.isCompleted),
                       !.isUnlocked = Field(data, "isUnlocked", r.isUnlocked)] : r \in old}

\* What is kept of a served request: the handler and its outcome; for
\* verifyPayment and completeLecture also the user and the course id of the
\* request, for the order handlers the gateway order id. alreadyPaid is set
\* by a verifyPayment whose findByRazorpayOrderId returned a paid order,
\* redelivery by one that directly follows a failed verifyPayment for the
\* same order.
Req(op, res, user, course, order) ==
    [op |-> op, res |-> res, user |-> user, course |-> course, order |-> order,
     alreadyPaid |-> FALSE, redelivery |-> FALSE]

\* Every handler serves one request of the budget, from its first statement
\* to its last with no other call in between.
Serve == requests < MaxRequests /\ requests' = requests + 1 /\ calls' = calls

\* ------------------------------------------------------- lecture handlers
MaxOf(S) == IF S = {} THEN 0 ELSE CHOOSE x \in S : \A y \in S : y <= x

\* LectureRepository.create: position = (max position of the course || 0) + 1.
NextPosition(L, c) == MaxOf({r.position : r \in CourseLectures(L, c)}) + 1

\* The table after db.lecture.create stored the lecture under the fresh id.
AddLecture(L, id, c, free) ==
    L \cup {[id |-> id, courseId |-> c, position |-> NextPosition(L, c), isFree |-> free]}

CreateLecture(c, free) ==
    /\ Serve
    /\ nextLectureId <= MaxLectures
    /\ lectures' = AddLecture(lectures, nextLectureId, c, free)
    /\ nextLectureId' = nextLectureId + 1
    /\ last' = Req("createLecture", "ok", "-", "-", 0)
    /\ UNCHANGED <<orders, gateway, enrollments, progress>>

\* LectureRepository.update: of the fields modelled only isFree can change.
UpdateLecture(l, free) ==
    /\ Serve
    /\ LectureExists(lectures, l)
    /\ lectures' = {IF r.id = l THEN [r EXCEPT !.isFree = free] ELSE r : r \in lectures}
    /\ last' = Req("updateLecture", "ok", "-", "-", 0)
    /\ UNCHANGED <<nextLectureId, orders, gateway, enrollments, progress>>

\* LectureRepository.delete; the progress rows of the lecture go with it
\* (ON DELETE CASCADE on user_lecture_progress.lectureId).
DeleteLecture(l) ==
    /\ Serve
    /\ LectureExists(lectures, l)
    /\ lectures' = {r \in lectures : r.id # l}
    /\ progress' = {r \in progress : r.lectureId # l}
    /\ last' = Req("deleteLecture", "ok", "-", "-", 0)
    /\ UNCHANGED <<nextLectureId, orders, gateway, enrollments>>

\* The requests a reorder call may carry: any list of {id, position}.
ReorderEntries == [id : LectureIds, position : 1..MaxPosition]
ReorderRequests == UNION {[1..n -> ReorderEntries] : n \in 0..MaxReorderLen}

\* An update that would look its row up by id alone.
ReorderEntryFoundById(L, c, e) == \E r \in L : r.id = e.id

\* tx.lecture.update({where: {id, courseId}}) finds its row.
ReorderEntryFound(L, c, e) == \E r \in L : r.id = e.id /\ r.courseId = c

RECURSIVE ApplyReorder(_, _, _)
ApplyReorder(L, req, i) ==
    IF i > Len(req) THEN L
    ELSE ApplyReorder({IF r.id = req[i].id THEN [r EXCEPT !.position = req[i].position]
                       ELSE r : r \in L}, req, i + 1)

\* POST /reorder/:courseId: one transaction, so an entry that finds no row
\* rolls every update back.
ReorderLectures(c, req) ==
    /\ Serve
    /\ LET found == \A i \in DOMAIN req : ReorderEntryFound(lectures, c, req[i])
       IN /\ lectures' = IF found THEN ApplyReorder(lectures, req, 1) ELSE lectures
          /\ last' = Req("reorderLectures", IF found THEN "ok" ELSE "error", "-", "-", 0)
          /\ UNCHANGED <<nextLectureId, orders, gateway, enrollments, progress>>

\* ------------------------------------------------------ progress handlers
\* shouldUnlock of initializeLectureProgress for the lecture at index i.
\* The previous lecture's progress is asked for with the local user id.
ShouldUnlock(P, sq, i, u, isEnrolled) ==
    IF sq[i].isFree THEN TRUE
    ELSE IF isEnrolled /\ i = 1 THEN TRUE
    ELSE IF isEnrolled
         THEN \E r \in GetUserLectureProgress(P, u, sq[i - 1].id) : r.isCompleted
         ELSE FALSE

RECURSIVE InitializeLoop(_, _, _, _, _, _)
InitializeLoop(P, sq, i, u, c, isEnrolled) ==
    IF i > Len(sq) THEN P
    ELSE InitializeLoop(
            UpsertLectureProgress(P, u, sq[i].id, c,
                [isUnlocked |-> ShouldUnlock(P, sq, i, u, isEnrolled)]),
            sq, i + 1, u, c, isEnrolled)

\* LectureProgressService.initializeLectureProgress
InitializeLectureProgress(k, c) ==
    /\ Serve
    /\ \E u \in ResolveUserId(k) :
           IF c \notin Courses
           THEN /\ last' = Req("initializeLectureProgress", "error", "-", "-", 0)
                /\ UNCHANGED <<lectures, nextLectureId, orders, gateway, enrollments, progress>>
           ELSE \E sq \in SortedLectures(lectures, c) :
                /\ progress' = InitializeLoop(progress, sq, 1, u, c,
                                              FindEnrollment(enrollments, u, c) # {})
                /\ last' = Req("initializeLectureProgress", "ok", "-", "-", 0)
                /\ UNCHANGED <<lectures, nextLectureId, orders, gateway, enrollments>>

\* An unlock step that takes the lecture created next (the next id) for the
\* lecture that follows.
UnlockNextCreated(P, E, sq, u, l, c) ==
    LET later == {sq[r].id : r \in {x \in DOMAIN sq : sq[x].id > l}}
    IN IF IndexOf(sq, l) # 0 /\ later # {} /\ FindEnrollment(E, u, c) # {}
       THEN UpsertLectureProgress(P, u, CHOOSE m \in later : \A n \in later : m <= n,
                                  c, [isUnlocked |-> TRUE])
       ELSE P

\* The part of completeLecture after the completion is stored: unlock the
\* lecture that follows in position order when an enrollment row exists.
UnlockNext(P, E, sq, u, l, c) ==
    LET idx == IndexOf(sq, l)
    IN IF idx # 0 /\ idx < Len(sq) /\ FindEnrollment(E, u, c) # {}
       THEN UpsertLectureProgress(P, u, sq[idx + 1].id, c, [isUnlocked |-> TRUE])
       ELSE P

\* LectureProgressService.completeLecture for the resolved user u; the empty
\* set stands for the exception of a failed upsert. The update branch of
\* the upsert writes no key, so only a row that has to be created can fail
\* on the course id; without a course row findById answers null and the
\* call returns after the completion is stored.
CompleteLectureResults(P, L, E, u, l, c) ==
    IF FindProgress(P, u, l) = {} /\ ~ProgressKeysExist(L, u, l, c) THEN {}
    ELSE {UnlockNext(UpsertLectureProgress(P, u, l, c, [isCompleted |-> TRUE]),
                     E, sq, u, l, c) : sq \in SortedLectures(L, c)}

\* POST /lecture/:lectureId/course/:courseId/complete
CompleteLecture(k, l, c) ==
    /\ Serve
    /\ \E u \in ResolveUserId(k) :
           LET out == CompleteLectureResults(progress, lectures, enrollments, u, l, c)
           IN /\ IF out = {} THEN progress' = progress ELSE progress' \in out
              /\ last' = Req("completeLecture", IF out = {} THEN "error" ELSE "ok", u, c, 0)
              /\ UNCHANGED <<lectures, nextLectureId, orders, gateway, enrollments>>

\* The bodies PUT /lecture/:lectureId/course/:courseId may carry.
ProgressBodies == {<<>>, [isCompleted |-> TRUE], [isCompleted |-> FALSE]}

\* An update handler that resolves the token's user id to the local user id
\* before it calls the upsert.
UpdateLectureProgressResolved(k, l, c, body) ==
    /\ Serve
    /\ \E u \in ResolveUserId(k) :
         IF FindProgress(progress, u, l) = {} /\ ~ProgressKeysExist(lectures, u, l, c)
         THEN /\ last' = Req("updateLectureProgress", "error", "-", "-", 0)
              /\ UNCHANGED <<lectures, nextLectureId, orders, gateway, enrollments, progress>>
         ELSE LET P1 == UpsertLectureProgress(progress, u, l, c, body)
                  out == IF Field(body, "isCompleted", FALSE)
                         THEN CompleteLectureResults(P1, lectures, enrollments, u, l, c)
                         ELSE {P1}
              IN /\ IF out = {} THEN progress' = P1 ELSE progress' \in out
                 /\ last' = Req("updateLectureProgress", IF out = {} THEN "error" ELSE "ok", "-", "-", 0)
                 /\ UNCHANGED <<lectures, nextLectureId, orders, gateway, enrollments>>

\* LectureProgressController.updateLectureProgress: the upsert is called
\* with the token's user id as it came, completeLecture follows when the
\* body says isCompleted.
UpdateLectureProgress(k, l, c, body) ==
    /\ Serve
    /\ IF ~ProgressKeysExist(lectures, k, l, c)
       THEN /\ last' = Req("updateLectureProgress", "error", "-", "-", 0)
            /\ UNCHANGED <<lectures, nextLectureId, orders, gateway, enrollments, progress>>
       ELSE LET P1 == UpsertLectureProgress(progress, k, l, c, body)
                out == IF Field(body, "isCompleted", FALSE)
                       THEN UNION {CompleteLectureResults(P1, lectures, enrollments, u, l, c)
                                   : u \in ResolveUserId(k)}
                       ELSE {P1}
            IN /\ IF out = {} THEN progress' = P1 ELSE progress' \in out
               /\ last' = Req("updateLectureProgress", IF out = {} THEN "error" ELSE "ok", "-", "-", 0)
               /\ UNCHANGED <<lectures, nextLectureId, orders, gateway, enrollments>>

\* --------------------------------------------------------- order handlers
\* An enrollment write that inserts a row without looking for the key.
InsertEnrollment(E, u, c, o) ==
    E \cup {[userId |-> u, courseId |-> c, orderId |-> o]}

\* OrderRepository.createOrUpdateEnrollment: upsert keyed by (userId, courseId),
\* update and create both store the order id.
CreateOrUpdateEnrollment(E, u, c, o) ==
    (E \ FindEnrollment(E, u, c)) \cup {[userId |-> u, courseId |-> c, orderId |-> o]}

\* CourseRepository.enrollStudent: the update branch only refreshes enrolledAt,
\* the create branch stores a row without an order.
EnrollStudent(E, c, u) ==
    IF FindEnrollment(E, u, c) # {} THEN E
    ELSE E \cup {[userId |-> u, courseId |-> c, orderId |-> NoOrder]}

\* OrderRepository.unlockCourseLectures: one upsert per lecture of the course,
\* update sets isUnlocked only, create stores an unlocked, uncompleted row.
RECURSIVE UnlockCourseLectures(_, _, _, _)
UnlockCourseLectures(P, todo, c, u) ==
    IF todo = {} THEN P
    ELSE LET r == CHOOSE x \in todo : TRUE
         IN UnlockCourseLectures(
                UpsertLectureProgress(P, u, r.id, c, [isUnlocked |-> TRUE]),
                todo \ {r}, c, u)

\* paidAt of an order row that was never paid (the column is nullable).
NoDate == -1

\* The order row as db.order.update of updatePaymentStatus leaves it; at is
\* the new Date() of the verifyPayment call that runs it.
\* razorpayPaymentId of an order row that was never paid, and the payment id
\* that the request bodies of the requests served one by one carry. The
\* signature comes from the same body and is written by the same statement.
NoPayment == "-"
RequestPaymentId == "pay_1"

\* An order update that sets the flag and leaves status and paidAt.
MarkPaidFlagOnly(r, at, pay) == [r EXCEPT !.isPaid = TRUE, !.razorpayPaymentId = pay]

\* An order update that keeps a payment id the row already holds.
MarkPaidKeepingPayment(r, at, pay) ==
    [r EXCEPT !.isPaid = TRUE, !.status = "COMPLETED", !.paidAt = at,
              !.razorpayPaymentId = IF r.razorpayPaymentId = NoPayment THEN pay
                                    ELSE r.razorpayPaymentId]

MarkPaid(r, at, pay) ==
    [r EXCEPT !.isPaid = TRUE, !.status = "COMPLETED", !.paidAt = at,
              !.razorpayPaymentId = pay]

\* OrderRepository.getUserLectureProgress: the rows carrying (userId, courseId).
CourseProgress(P, u, c) == {r \in P : r.userId = u /\ r.courseId = c}

\* The faults a createOrder call can meet: the gateway call or one of the two
\* database writes of OrderRepository.create throws.
CreateOrderFaults == {"none", "gateway", "orderCreate", "enrollUpsert"}

FreshOrderId == CHOOSE o \in OrderIds : gateway[o] = "absent" /\ \A p \in OrderIds : gateway[p] = "absent" => o <= p

\* A createOrder that does not look at the course's price.
CreateOrderRejectionAnyPrice(c, fault) ==
    IF c \notin Courses THEN "CourseNotFound"
    ELSE IF fault = "gateway" THEN "GatewayUnavailable"
    ELSE "none"

\* The error OrderService.createOrder raises before it writes: the course
\* lookup, the price check and the gateway call, in this order.
CreateOrderRejection(c, fault) ==
    IF c \notin Courses THEN "CourseNotFound"
    ELSE IF CoursePrice[c] = 0 THEN "PriceNotSet"
    ELSE IF fault = "gateway" THEN "GatewayUnavailable"
    ELSE "none"

\* OrderService.createOrder
CreateOrder(u, c, fault) ==
    /\ Serve
    /\ IF CreateOrderRejection(c, fault) # "none" THEN
           /\ last' = Req("createOrder", CreateOrderRejection(c, fault), "-", "-", 0)
           /\ UNCHANGED <<lectures, nextLectureId, orders, gateway, enrollments, progress>>
       ELSE
           /\ \E o \in OrderIds : gateway[o] = "absent"
           /\ LET o == FreshOrderId
                  row == [id |-> o, courseId |-> c, studentId |-> u,
                          status |-> "PENDING", isPaid |-> FALSE, paidAt |-> NoDate,
                          razorpayPaymentId |-> NoPayment]
              IN /\ gateway' = [gateway EXCEPT ![o] = "created"]
                 /\ orders' = IF fault = "orderCreate" THEN orders ELSE orders \cup {row}
                 /\ enrollments' = IF fault = "none"
                                   THEN CreateOrUpdateEnrollment(enrollments, u, c, o)
                                   ELSE enrollments
                 /\ last' = Req("createOrder", IF fault = "none" THEN "ok" ELSE "DatabaseError", "-", "-", o)
           /\ UNCHANGED <<lectures, nextLectureId, progress>>

\* The customer pays the order at the gateway.
GatewayPay(o) ==
    /\ Serve
    /\ gateway[o] = "created"
    /\ gateway' = [gateway EXCEPT ![o] = "paid"]
    /\ last' = Req("gatewayPay", "ok", "-", "-", o)
    /\ UNCHANGED <<lectures, nextLectureId, orders, enrollments, progress>>

\* A status check that takes every order the gateway knows for paid.
GatewayReportsKnown(status) == status # "absent"

\* orderInfo.status === 'paid'
GatewayReportsPaid(status) == status = "paid"

\* OrderRepository.updatePaymentStatus with isPaid = true, on the tables
\* <<orders, enrollments, progress>>.
UpdatePaymentStatus(O, E, P, L, o, at, pay) ==
    LET row == CHOOSE r \in O : r.id = o
    IN <<(O \ {row}) \cup {MarkPaid(row, at, pay)},
         CreateOrUpdateEnrollment(E, row.studentId, row.courseId, row.id),
         UnlockCourseLectures(P, CourseLectures(L, row.courseId), row.courseId, row.studentId)>>

\* OrderService.verifyLectureAccess, the read-back of verifyPayment: the
\* unlocked count is the number of rows getUserLectureProgress returns for
\* (userId, courseId), whatever their isUnlocked flag.
VerifyLectureAccess(P, L, u, c) ==
    LET unlockedLectures == Cardinality(CourseProgress(P, u, c))
        totalLectures == Cardinality(CourseLectures(L, c))
    IN [unlockedLectures |-> unlockedLectures, totalLectures |-> totalLectures,
        allUnlocked |-> unlockedLectures = totalLectures]

\* The failures a verifyPayment call can meet: the gateway query fails, a
\* database call before the first write throws, db.order.update has run and
\* the enrollment upsert throws, the unlock loop throws part-way, or a read
\* after updatePaymentStatus throws.
VerifyFaults == {"none", "gateway", "orderUpdate", "enrollUpsert", "unlock", "readBack"}

\* A status query that is tried again after a failure and then answers.
GatewayQueryFailsAfterRetry(o, fault) == gateway[o] = "absent"

\* getRazorpayInstance() returns null or the one orders.fetch call rejects
\* (it also rejects for an id the gateway does not know).
GatewayQueryFails(o, fault) == fault = "gateway" \/ gateway[o] = "absent"

\* A verifyPayment that refuses an order it has already marked paid.
VerifyOutcomeOnce(o, c, fault) ==
    IF GatewayQueryFails(o, fault) THEN "GatewayUnavailable"
    ELSE IF ~GatewayReportsPaid(gateway[o]) THEN "fail"
    ELSE IF c \notin Courses THEN "CourseNotFound"
    ELSE IF FindByRazorpayOrderId(orders, o) = {} THEN "OrderNotFound"
    ELSE IF \E r \in FindByRazorpayOrderId(orders, o) : r.isPaid THEN "AlreadyProcessed"
    ELSE "success"

\* The way OrderService.verifyPayment ends before it writes, for the gateway
\* order id o and the course id c of the request body: the gateway query
\* throws, a status other than paid returns success = false, then the course
\* and the order row are looked up, in this order; "success" lets the call
\* go on to updatePaymentStatus.
VerifyOutcome(o, c, fault) ==
    IF GatewayQueryFails(o, fault) THEN "GatewayUnavailable"
    ELSE IF ~GatewayReportsPaid(gateway[o]) THEN "fail"
    ELSE IF c \notin Courses THEN "CourseNotFound"
    ELSE IF FindByRazorpayOrderId(orders, o) = {} THEN "OrderNotFound"
    ELSE "success"

\* The progress tables an unlock loop can leave when one of its calls throws:
\* the lectures upserted before the failure are any proper subset of the
\* course's lectures (findMany returns them in no stated order).
PartialUnlocks(P, L, c, u) ==
    {UnlockCourseLectures(P, done, c, u) :
        done \in (SUBSET CourseLectures(L, c)) \ {CourseLectures(L, c)}}

\* The writes and the answer of OrderService.verifyPayment; the call's
\* new Date() is the number of the request being served.
VerifyPaymentBody(u, o, c, fault) ==
    IF VerifyOutcome(o, c, fault) # "success" THEN
        /\ last' = Req("verifyPayment", VerifyOutcome(o, c, fault), u, c, o)
        /\ UNCHANGED <<lectures, nextLectureId, orders, gateway, enrollments, progress>>
    ELSE IF fault = "orderUpdate" THEN
        /\ last' = Req("verifyPayment", "DatabaseError", u, c, o)
        /\ UNCHANGED <<lectures, nextLectureId, orders, gateway, enrollments, progress>>
    ELSE
        LET upd == UpdatePaymentStatus(orders, enrollments, progress, lectures, o,
                                       requests', RequestPaymentId)
            row == CHOOSE r \in orders : r.id = o
        IN /\ orders' = upd[1]
           /\ enrollments' = IF fault = "enrollUpsert" THEN enrollments
                              ELSE IF fault = "none" /\ FindEnrollment(upd[2], u, c) = {}
                                   THEN EnrollStudent(upd[2], c, u)
                                   ELSE upd[2]
           /\ progress' \in IF fault = "enrollUpsert" THEN {progress}
                             ELSE IF fault = "unlock"
                                  THEN PartialUnlocks(progress, lectures, row.courseId, row.studentId)
                                  ELSE {upd[3]}
           /\ last' = [Req("verifyPayment", IF fault = "none" THEN "success" ELSE "DatabaseError", u, c, o)
                          EXCEPT !.alreadyPaid = row.isPaid,
                                 !.redelivery = /\ last.op = "verifyPayment" /\ last.order = o
                                                /\ last.res \in {"GatewayUnavailable", "DatabaseError"}]
           /\ UNCHANGED <<lectures, nextLectureId, gateway>>

\* OrderService.verifyPayment for the authenticated user u, the gateway order
\* id o and the course id c of the request body.
VerifyPayment(u, o, c, fault) ==
    /\ Serve
    /\ VerifyPaymentBody(u, o, c, fault)

\* ------------------------------------------------------------------ reads
\* The ids the reads are asked with: "u0" is a user id and "k0" the Clerk id
\* of a signed-in account, neither of which names a row of the user table.
UserIdInputs == Users \cup {"u0"}
TokenIds == ClerkIds \cup {"k0"}

\* CourseService.checkCourseEnrollment for the local user id u:
\* findEnrollment is a findUnique, a missing row gives isEnrolled = false.
CheckCourseEnrollment(u, c) ==
    /\ Serve
    /\ last' = Req("checkCourseEnrollment",
                   IF FindEnrollment(enrollments, u, c) # {} THEN "true" ELSE "false", u, c, 0)
    /\ UNCHANGED <<lectures, nextLectureId, orders, gateway, enrollments, progress>>

\* GET /course/:courseId/progress for the token's Clerk id k:
\* LectureProgressService.getCourseLectureProgress resolves the Clerk id
\* inside its try block, so an id without a user row ends in 'Failed to get
\* course lecture progress', which the controller answers with status 500.
GetCourseLectureProgress(k, c) ==
    /\ Serve
    /\ last' = Req("getCourseLectureProgress",
                   IF ResolveUserId(k) = {} THEN "error"
                   ELSE IF \E u \in ResolveUserId(k) : CourseProgress(progress, u, c) # {}
                        THEN "rows" ELSE "empty",
                   k, c, 0)
    /\ UNCHANGED <<lectures, nextLectureId, orders, gateway, enrollments, progress>>

\* --------------------------------------------------------- calls that race
\* Each awaited database call of a handler is one step; between two steps of
\* a call any other call in flight may take steps. A Prisma call is one
\* statement of the database, the upserts included (insert ... on conflict
\* do update on the unique index).
InFlight(q) == calls[q].op # "none" /\ calls[q].pc \notin {"fetch", "complete", "done"}

\* The call of process p moves on to pc with the fields of change replaced;
\* raced records that another call was in flight during one of its steps.
Advance(p, pc, change) ==
    calls' = [calls EXCEPT ![p] =
                [f \in DOMAIN NoCall |->
                    IF f = "pc" THEN pc
                    ELSE IF f = "raced"
                         THEN calls[p].raced \/ \E q \in RaceProcs \ {p} : InFlight(q)
                    ELSE IF f \in DOMAIN change THEN change[f]
                    ELSE calls[p][f]]]

\* verifyPayment up to its first write: the gateway query and the lookups
\* of the course and of the order row.
RaceFetch(p) ==
    /\ calls[p].op = "verifyPayment" /\ calls[p].pc = "fetch"
    /\ LET out == VerifyOutcome(calls[p].order, calls[p].course, "none")
       IN IF out = "success" THEN Advance(p, "update", <<>>)
          ELSE Advance(p, "done", [res |-> out])
    /\ UNCHANGED <<lectures, nextLectureId, orders, gateway, enrollments, progress, last, requests>>

\* db.order.update of updatePaymentStatus: one statement that writes isPaid,
\* status, paidAt and the payment id of the call.
RaceOrderUpdate(p) ==
    /\ calls[p].op = "verifyPayment" /\ calls[p].pc = "update"
    /\ orders' = {IF r.id = calls[p].order THEN MarkPaid(r, calls[p].at, calls[p].pay) ELSE r :
                    r \in orders}
    /\ Advance(p, "enroll", <<>>)
    /\ UNCHANGED <<lectures, nextLectureId, gateway, enrollments, progress, last, requests>>

\* createOrUpdateEnrollment for the pair of the order row, then the findMany
\* of unlockCourseLectures (no call in flight changes the lecture table).
RaceEnroll(p) ==
    /\ calls[p].op = "verifyPayment" /\ calls[p].pc = "enroll"
    /\ \E r \in FindByRazorpayOrderId(orders, calls[p].order) :
          /\ enrollments' = CreateOrUpdateEnrollment(enrollments, r.studentId, r.courseId, r.id)
          /\ Advance(p, "unlock", [todo |-> CourseLectures(lectures, r.courseId)])
    /\ UNCHANGED <<lectures, nextLectureId, orders, gateway, progress, last, requests>>

\* One upsert of the unlock loop, or its end.
RaceUnlock(p) ==
    /\ calls[p].op = "verifyPayment" /\ calls[p].pc = "unlock"
    /\ IF calls[p].todo = {}
       THEN Advance(p, "readBack", <<>>) /\ progress' = progress
       ELSE \E l \in calls[p].todo, r \in FindByRazorpayOrderId(orders, calls[p].order) :
              /\ progress' = UpsertLectureProgress(progress, r.studentId, l.id, r.courseId,
                                                   [isUnlocked |-> TRUE])
              /\ Advance(p, "unlock", [todo |-> calls[p].todo \ {l}])
    /\ UNCHANGED <<lectures, nextLectureId, orders, gateway, enrollments, last, requests>>

\* The read-back of verifyPayment with the enrollment repair, and the answer.
RaceReadBack(p) ==
    /\ calls[p].op = "verifyPayment" /\ calls[p].pc = "readBack"
    /\ enrollments' = IF FindEnrollment(enrollments, calls[p].user, calls[p].course) = {}
                      THEN EnrollStudent(enrollments, calls[p].course, calls[p].user)
                      ELSE enrollments
    /\ Advance(p, "done", [res |-> "success"])
    /\ UNCHANGED <<lectures, nextLectureId, orders, gateway, progress, last, requests>>

\* completeLecture: the upsert that stores the completion.
RaceComplete(p) ==
    /\ calls[p].op = "completeLecture" /\ calls[p].pc = "complete"
    /\ LET u == calls[p].user
           l == calls[p].lecture
           c == calls[p].course
       IN IF FindProgress(progress, u, l) = {} /\ ~ProgressKeysExist(lectures, u, l, c)
          THEN Advance(p, "done", [res |-> "error"]) /\ progress' = progress
          ELSE /\ progress' = UpsertLectureProgress(progress, u, l, c, [isCompleted |-> TRUE])
               /\ Advance(p, "next", <<>>)
    /\ UNCHANGED <<lectures, nextLectureId, orders, gateway, enrollments, last, requests>>

\* completeLecture: the lookups of the course and of the enrollment, and the
\* upsert that unlocks the lecture that follows.
RaceUnlockNext(p) ==
    /\ calls[p].op = "completeLecture" /\ calls[p].pc = "next"
    /\ \E sq \in SortedLectures(lectures, calls[p].course) :
          progress' = UnlockNext(progress, enrollments, sq, calls[p].user,
                                 calls[p].lecture, calls[p].course)
    /\ Advance(p, "done", [res |-> "ok"])
    /\ UNCHANGED <<lectures, nextLectureId, orders, gateway, enrollments, last, requests>>

\* ------------------------------------------------------------ specification
\* The catalogue when the first student arrives: course c1 with a free
\* lecture followed by a paid one, course c2 with one paid lecture, each
\* stored by a createLecture call.
InitialLectures ==
    LET t1 == AddLecture({}, 1, "c1", TRUE)
        t2 == AddLecture(t1, 2, "c1", FALSE)
    IN AddLecture(t2, 3, "c2", FALSE)
InitialLectureCount == Cardinality(InitialLectures)

Init ==
    /\ lectures = InitialLectures
    /\ nextLectureId = InitialLectureCount + 1
    /\ requests = 0
    /\ orders = {}
    /\ gateway = [o \in OrderIds |-> "absent"]
    /\ enrollments = {}
    /\ progress = {}
    /\ last = NoRequest
    /\ calls = NoCalls

\* The unlock engine and the payment reconciliation, over a catalogue that
\* instructors keep editing; verifyPayment meets no infrastructure failure
\* here (SpecOrders has them).
Handler ==
    \/ \E c \in Courses, free \in BOOLEAN : CreateLecture(c, free)
    \/ \E l \in LectureIds, free \in BOOLEAN : UpdateLecture(l, free)
    \/ \E l \in LectureIds : DeleteLecture(l)
    \/ \E k \in ProgressCallers, c \in CourseIdInputs : InitializeLectureProgress(k, c)
    \/ \E k \in ProgressCallers, l \in LectureIds, c \in CourseIdInputs : CompleteLecture(k, l, c)
    \/ \E k \in ProgressCallers, l \in LectureIds, c \in CourseIdInputs, body \in ProgressBodies :
            UpdateLectureProgress(k, l, c, body)
    \/ \E u \in Users, c \in CourseIdInputs, fault \in CreateOrderFaults : CreateOrder(u, c, fault)
    \/ \E o \in OrderIds : GatewayPay(o)
    \/ \E u \in Users, o \in OrderIds, c \in CourseIdInputs : VerifyPayment(u, o, c, "none")

Next == Handler

Spec == Init /\ [][Next]_vars

\* The lecture table handlers alone, reorder included.
LectureHandler ==
    \/ \E c \in Courses, free \in BOOLEAN : CreateLecture(c, free)
    \/ \E l \in LectureIds, free \in BOOLEAN : UpdateLecture(l, free)
    \/ \E l \in LectureIds : DeleteLecture(l)
    \/ \E c \in Courses, req \in ReorderRequests : ReorderLectures(c, req)

NextLectures == LectureHandler

SpecLectures == Init /\ [][NextLectures]_vars

\* The store after student u1 bought course c1: createOrder, the payment at
\* the gateway and verifyPayment, on the initial catalogue.
PaidOrder ==
    MarkPaid([id |-> 1, courseId |-> "c1", studentId |-> "u1",
              status |-> "PENDING", isPaid |-> FALSE, paidAt |-> NoDate,
              razorpayPaymentId |-> NoPayment], 0, RequestPaymentId)

InitPaid ==
    /\ lectures = InitialLectures
    /\ nextLectureId = InitialLectureCount + 1
    /\ requests = 0
    /\ orders = {PaidOrder}
    /\ gateway = [o \in OrderIds |-> IF o = PaidOrder.id THEN "paid" ELSE "absent"]
    /\ enrollments = CreateOrUpdateEnrollment({}, "u1", "c1", PaidOrder.id)
    /\ progress = UnlockCourseLectures({}, CourseLectures(InitialLectures, "c1"), "c1", "u1")
    /\ last = NoRequest
    /\ calls = NoCalls

\* The reorder requests of an instructor who moves one lecture to a position
\* or swaps the positions of two lectures of the course.
MoveRequests == {<<e>> : e \in ReorderEntries}
SwapRequests(L, c) ==
    {<<[id |-> a.id, position |-> b.position], [id |-> b.id, position |-> a.position]>> :
        a \in CourseLectures(L, c), b \in CourseLectures(L, c)}

\* A student who paid, or one who did not, completing lectures while the
\* instructor adds and reorders lectures.
ReorderHandler ==
    \/ \E c \in Courses, free \in BOOLEAN : CreateLecture(c, free)
    \/ \E c \in Courses : \E req \in MoveRequests \cup SwapRequests(lectures, c) :
            ReorderLectures(c, req)
    \/ \E k \in ProgressCallers, l \in LectureIds, c \in CourseIdInputs : CompleteLecture(k, l, c)

NextReorder == ReorderHandler

SpecReorder == (Init \/ InitPaid) /\ [][NextReorder]_vars

\* The reorder requests of at most two entries that name lectures of the
\* catalogue, of either course, or the one id that names no lecture.
CatalogueEntries(L) == [id : {r.id : r \in L} \cup {nextLectureId}, position : 1..MaxPosition]
CatalogueRequests(L) == UNION {[1..n -> CatalogueEntries(L)] : n \in 0..2}

\* An instructor who reorders and deletes the lectures of the catalogue.
CatalogueHandler ==
    \/ \E l \in LectureIds : DeleteLecture(l)
    \/ \E c \in Courses : \E req \in CatalogueRequests(lectures) : ReorderLectures(c, req)

NextCatalogue == CatalogueHandler

SpecCatalogue == Init /\ [][NextCatalogue]_vars

\* A student who paid, or one who did not, initializing and completing
\* lectures while the instructor adds lectures.
InitializeHandler ==
    \/ \E c \in Courses, free \in BOOLEAN : CreateLecture(c, free)
    \/ \E k \in ProgressCallers, c \in CourseIdInputs : InitializeLectureProgress(k, c)
    \/ \E k \in ProgressCallers, l \in LectureIds, c \in CourseIdInputs : CompleteLecture(k, l, c)

NextInitialize == InitializeHandler

SpecInitialize == (Init \/ InitPaid) /\ [][NextInitialize]_vars

\* The order student u1 created for course c1 and paid at the gateway, before
\* any confirmation is served.
PendingOrder ==
    [id |-> 1, courseId |-> "c1", studentId |-> "u1", status |-> "PENDING",
     isPaid |-> FALSE, paidAt |-> NoDate, razorpayPaymentId |-> NoPayment]

\* A confirmation of the pending order in flight, with the payment id of its
\* body and the new Date() it takes.
VerifyCall(pay, at) ==
    [NoCall EXCEPT !.op = "verifyPayment", !.pc = "fetch", !.user = PendingOrder.studentId,
                   !.course = PendingOrder.courseId, !.order = PendingOrder.id,
                   !.pay = pay, !.at = at]

CompleteCall(l) ==
    [NoCall EXCEPT !.op = "completeLecture", !.pc = "complete", !.user = PendingOrder.studentId,
                   !.course = PendingOrder.courseId, !.lecture = l]

\* The webhook retry and the client's verify call arrive for the paid order
\* while the student completes a lecture of the course.
InitRace ==
    /\ lectures = InitialLectures
    /\ nextLectureId = InitialLectureCount + 1
    /\ requests = 0
    /\ orders = {PendingOrder}
    /\ gateway = [o \in OrderIds |-> IF o = PendingOrder.id THEN "paid" ELSE "absent"]
    /\ enrollments = CreateOrUpdateEnrollment({}, "u1", "c1", PendingOrder.id)
    /\ progress = {}
    /\ last = NoRequest
    /\ \E l \in {r.id : r \in CourseLectures(InitialLectures, "c1")} :
          calls = [p \in RaceProcs |->
                     IF p = "webhook" THEN VerifyCall("pay_1", 1)
                     ELSE IF p = "client" THEN VerifyCall("pay_2", 2)
                     ELSE CompleteCall(l)]

RaceStep ==
    \/ \E p \in RaceProcs : RaceFetch(p)
    \/ \E p \in RaceProcs : RaceOrderUpdate(p)
    \/ \E p \in RaceProcs : RaceEnroll(p)
    \/ \E p \in RaceProcs : RaceUnlock(p)
    \/ \E p \in RaceProcs : RaceReadBack(p)
    \/ \E p \in RaceProcs : RaceComplete(p)
    \/ \E p \in RaceProcs : RaceUnlockNext(p)

NextRace == RaceStep

SpecRace == InitRace /\ [][NextRace]_vars

\* The order handlers alone, with every failure their gateway and database
\* calls can meet.
OrderHandler ==
    \/ \E u \in Users, c \in CourseIdInputs, fault \in CreateOrderFaults : CreateOrder(u, c, fault)
    \/ \E o \in OrderIds : GatewayPay(o)
    \/ \E u \in Users, o \in OrderIds, c \in CourseIdInputs, fault \in VerifyFaults :
            VerifyPayment(u, o, c, fault)

NextOrders == OrderHandler

SpecOrders == Init /\ [][NextOrders]_vars

\* The reads, between the requests that write the rows they look for.
ReadHandler ==
    \/ \E u \in Users, c \in CourseIdInputs : CreateOrder(u, c, "none")
    \/ \E o \in OrderIds : GatewayPay(o)
    \/ \E u \in Users, o \in OrderIds, c \in CourseIdInputs : VerifyPayment(u, o, c, "none")
    \/ \E k \in ProgressCallers, l \in LectureIds, c \in CourseIdInputs : CompleteLecture(k, l, c)
    \/ \E u \in UserIdInputs, c \in CourseIdInputs : CheckCourseEnrollment(u, c)
    \/ \E k \in TokenIds, c \in CourseIdInputs : GetCourseLectureProgress(k, c)

NextReads == ReadHandler

SpecReads == Init /\ [][NextReads]_vars

\* The caller of verifyPayment delivers the confirmation of an order, for
\* the order's own student and course, and the delivery meets a failure.
Deliver(o, fault) ==
    /\ fault # "none"
    /\ \E r \in FindByRazorpayOrderId(orders, o) :
           VerifyPayment(r.studentId, o, r.courseId, fault)

\* The caller delivers the confirmation of a paid order again. The failures
\* that deliveries meet are those of the budgeted requests, so they end; the
\* redelivery itself is not counted and stays possible.
Redeliver(o) ==
    /\ requests' = requests /\ calls' = calls
    /\ gateway[o] = "paid"
    /\ \E r \in FindByRazorpayOrderId(orders, o) :
           VerifyPaymentBody(r.studentId, o, r.courseId, "none")

DeliveryHandler ==
    \/ \E u \in Users, c \in CourseIdInputs, fault \in CreateOrderFaults : CreateOrder(u, c, fault)
    \/ \E o \in OrderIds : GatewayPay(o)
    \/ \E o \in OrderIds, fault \in VerifyFaults : Deliver(o, fault)
    \/ \E o \in OrderIds : Redeliver(o)

NextRedelivery == DeliveryHandler

\* Every paid order keeps being delivered until a delivery meets no failure.
SpecRedelivery ==
    Init /\ [][NextRedelivery]_vars /\ \A o \in OrderIds : WF_vars(Redeliver(o))

\* ------------------------------------------------------------------ claims
\* The student holds a paid enrollment: an enrollment row for the course and
\* a COMPLETED order of theirs for it.
HoldsPaidEnrollment(u, c) ==
    /\ FindEnrollment(enrollments, u, c) # {}
    /\ \E r \in orders : r.studentId = u /\ r.courseId = c /\ r.status = "COMPLETED"

IsUnlocked(P, u, l) == \E r \in FindProgress(P, u, l) : r.isUnlocked
IsCompleted(P, u, l) == \E r \in FindProgress(P, u, l) : r.isCompleted

\* C1: once a (student, lecture) row has isUnlocked = true, no request sets
\* it back to false.
C1_UnlockNeverRegresses ==
    [][\A r \in progress : r.isUnlocked =>
            \A q \in FindProgress(progress', r.userId, r.lectureId) : q.isUnlocked]_vars

\* C2: every row with isCompleted = true has isUnlocked = true.
C2_CompletedImpliesUnlocked == \A r \in progress : r.isCompleted => r.isUnlocked

\* C3: when verifyPayment has just returned success for an order, the
\* progress rows of the order's student for the order's course are exactly
\* one per lecture of the course, all unlocked.
C3_SuccessUnlocksExactlyTheCourse ==
    (last.op = "verifyPayment" /\ last.res = "success") =>
        \A r \in FindByRazorpayOrderId(orders, last.order) :
            LET rows == CourseProgress(progress, r.studentId, r.courseId)
                lecs == CourseLectures(lectures, r.courseId)
            IN /\ Cardinality(rows) = Cardinality(lecs)
               /\ {row.lectureId : row \in rows} = {l.id : l \in lecs}
               /\ \A row \in rows : row.isUnlocked

\* What C4 compares of the tables: the order rows with their paid state, the
\* enrollment rows, and the unlocked (student, lecture) pairs.
OrderStates(O) ==
    {[id |-> r.id, courseId |-> r.courseId, studentId |-> r.studentId,
      status |-> r.status, isPaid |-> r.isPaid] : r \in O}
UnlockedPairs(P) == {<<r.userId, r.lectureId>> : r \in {q \in P : q.isUnlocked}}

\* The request being served repeats the successful verifyPayment served
\* just before it.
ReplayOfSuccess ==
    /\ last.op = "verifyPayment" /\ last.res = "success"
    /\ last'.op = "verifyPayment"
    /\ last'.order = last.order /\ last'.user = last.user /\ last'.course = last.course
    /\ requests' = requests + 1

\* C4: verifyPayment repeated right after it succeeded returns success again
\* and leaves one order row for the id, the same order states, the same
\* enrollment rows and the same unlocked lectures.
C4_ReplayIsIdempotent ==
    [][ReplayOfSuccess =>
            /\ last'.res = "success"
            /\ OrderStates(orders') = OrderStates(orders)
            /\ Cardinality(FindByRazorpayOrderId(orders', last'.order)) = 1
            /\ enrollments' = enrollments
            /\ \A r \in FindByRazorpayOrderId(orders', last'.order) :
                   Cardinality(FindEnrollment(enrollments', r.studentId, r.courseId)) = 1
            /\ UnlockedPairs(progress') = UnlockedPairs(progress)]_vars

\* A verifyPayment has succeeded on an order that was already paid, for the
\* order's own student and course, and the course has a lecture.
C4_Witness ==
    /\ last.op = "verifyPayment" /\ last.res = "success" /\ last.alreadyPaid
    /\ \E r \in orders : /\ r.id = last.order /\ r.status = "COMPLETED"
                         /\ r.studentId = last.user /\ r.courseId = last.course
                         /\ CourseLectures(lectures, r.courseId) # {}
                         /\ \A l \in CourseLectures(lectures, r.courseId) :
                                IsUnlocked(progress, r.studentId, l.id)

\* The paid lectures of course c that are unlocked for student u.
UnlockedPaidLectures(P, u, c) ==
    {l.id : l \in {x \in CourseLectures(lectures, c) : ~x.isFree /\ IsUnlocked(P, u, x.id)}}

\* C5: a completeLecture served for a student who holds no paid enrollment
\* for the course unlocks no paid lecture of it.
C5_CompletionUnlocksOnlyWhenPaid ==
    [][(last'.op = "completeLecture" /\ requests' = requests + 1
        /\ last'.course \in Courses /\ ~HoldsPaidEnrollment(last'.user, last'.course))
       => UnlockedPaidLectures(progress', last'.user, last'.course)
              \subseteq UnlockedPaidLectures(progress, last'.user, last'.course)]_vars

\* A verifyPayment is being served for a gateway order id that has no order
\* row, and the gateway knows the id.
VerifyOfUnknownOrder ==
    /\ last'.op = "verifyPayment" /\ requests' = requests + 1
    /\ FindByRazorpayOrderId(orders, last'.order) = {}
    /\ gateway[last'.order] # "absent"

\* C6: verifyPayment for a gateway order id that has no order row fails with
\* OrderNotFound whatever status the gateway reports for the id, and creates
\* no order, enrollment or progress row.
C6_UnknownOrderAlwaysOrderNotFound ==
    [][VerifyOfUnknownOrder =>
            /\ last'.res = "OrderNotFound"
            /\ UNCHANGED <<orders, enrollments, progress>>]_vars

\* C7: a verifyPayment for which the gateway reports a status other than
\* paid returns success = false and changes no order, enrollment or
\* progress row.
C7_UnpaidChangesNothing ==
    [][(last'.op = "verifyPayment" /\ requests' = requests + 1
        /\ gateway[last'.order] \notin {"absent", "paid"})
       => /\ last'.res = "fail"
          /\ UNCHANGED <<orders, enrollments, progress>>]_vars

\* An unpaid order with its row in the store has been verified.
C7_Witness ==
    /\ last.op = "verifyPayment" /\ last.res = "fail"
    /\ gateway[last.order] = "created"
    /\ \E r \in orders : r.id = last.order /\ r.status = "PENDING" /\ ~r.isPaid

\* C8: a student who holds a paid enrollment for a course has an unlocked
\* progress row for every lecture currently in the course.
C8_PaidImpliesAllUnlocked ==
    \A u \in Users, c \in Courses :
        HoldsPaidEnrollment(u, c) =>
            \A l \in CourseLectures(lectures, c) : IsUnlocked(progress, u, l.id)

\* Lecture l comes right after a lecture the student has completed, in some
\* position order of the course.
FollowsCompleted(u, c, l) ==
    \E sq \in SortedLectures(lectures, c) :
        \E i \in 1..(Len(sq) - 1) : sq[i + 1].id = l /\ IsCompleted(progress, u, sq[i].id)

\* C9: for a student without a paid enrollment, every unlocked lecture of
\* the course is free or comes right after a completed lecture.
C9_UnpaidSeesFreeAndNext ==
    \A u \in Users, c \in Courses :
        ~HoldsPaidEnrollment(u, c) =>
            \A l \in CourseLectures(lectures, c) :
                IsUnlocked(progress, u, l.id) => (l.isFree \/ FollowsCompleted(u, c, l.id))

\* C10: no two lectures of a course have the same position.
C10_PositionsUnique ==
    \A a, b \in lectures : (a.courseId = b.courseId /\ a.position = b.position) => a.id = b.id

\* The lectures unlocked for student u in P2 that were not unlocked in P1.
NewlyUnlocked(P1, P2, u) ==
    {l \in LectureIds : IsUnlocked(P2, u, l) /\ ~IsUnlocked(P1, u, l)}

\* C11: a completeLecture served for lecture l of course c unlocks nothing
\* but the lecture that follows l in the position order stored when the
\* call is served, and unlocks that one when the student is enrolled.
C11_NextLectureFromCurrentPositions ==
    [][(last'.op = "completeLecture" /\ last'.res = "ok") =>
       \A k \in ProgressCallers, l \in LectureIds, c \in Courses :
         CompleteLecture(k, l, c) =>
            \E sq \in SortedLectures(lectures, c) :
                LET i == IndexOf(sq, l)
                    new == NewlyUnlocked(progress, progress', last'.user)
                IN IF i # 0 /\ i < Len(sq) /\ FindEnrollment(enrollments, last'.user, c) # {}
                   THEN IsUnlocked(progress', last'.user, sq[i + 1].id)
                        /\ new \subseteq {sq[i + 1].id}
                   ELSE new = {}]_vars

\* The paid student has just completed lecture 1 after the reorder that
\* moved it behind lecture 2: lecture 4, created after the payment, follows
\* it now and is unlocked.
C11_Witness ==
    /\ last.op = "completeLecture" /\ last.res = "ok" /\ last.course = "c1"
    /\ HoldsPaidEnrollment("u1", "c1")
    /\ \E a, b, d \in lectures :
          /\ a.id = 2 /\ b.id = 1 /\ d.id = 4
          /\ a.courseId = "c1" /\ b.courseId = "c1" /\ d.courseId = "c1"
          /\ a.position < b.position /\ b.position < d.position
    /\ IsCompleted(progress, "u1", 1)
    /\ IsUnlocked(progress, "u1", 4)

\* C12: once a (student, lecture) row has isCompleted = true, no request
\* sets it back to false, the progress update with isCompleted = false
\* included.
C12_CompletedNeverRegresses ==
    [][\A r \in progress : r.isCompleted =>
            \A q \in FindProgress(progress', r.userId, r.lectureId) : q.isCompleted]_vars

\* The progress update has been served for a student who has a completed
\* lecture, and the lecture is still completed.
C12_Witness ==
    /\ last.op = "updateLectureProgress"
    /\ \E k \in ProgressCallers : \E u \in ResolveUserId(k) :
            \E r \in progress : r.userId = u /\ r.isCompleted

\* C13: createOrder fails with CourseNotFound for a course that does not
\* exist, with PriceNotSet for a course without a price, with
\* GatewayUnavailable when the gateway cannot be reached, and then creates
\* or changes no order row and no enrollment row.
C13_CreateOrderRejections ==
    [][last'.op = "createOrder" =>
       \A u \in Users, c \in CourseIdInputs, fault \in CreateOrderFaults :
         CreateOrder(u, c, fault) =>
            /\ c \notin Courses => last'.res = "CourseNotFound"
            /\ (c \in Courses /\ CoursePrice[c] = 0) => last'.res = "PriceNotSet"
            /\ (c \in Courses /\ CoursePrice[c] # 0 /\ fault = "gateway")
                    => last'.res = "GatewayUnavailable"
            /\ last'.res \in {"CourseNotFound", "PriceNotSet", "GatewayUnavailable"}
                    => UNCHANGED <<orders, enrollments>>]_vars

\* A createOrder has been rejected for the missing price while the store
\* holds an order and an enrollment.
C13_Witness ==
    /\ last.op = "createOrder" /\ last.res = "PriceNotSet"
    /\ orders # {} /\ enrollments # {}

\* C14: a successful createOrder adds exactly one order row, PENDING and
\* unpaid, keyed by the gateway's order id, and leaves exactly one
\* enrollment row of the student for the course, which refers to that order;
\* a createOrder that reports a failure adds no order row.
C14_CreateOrderAllOrNothing ==
    [][last'.op = "createOrder" =>
       \A u \in Users, c \in CourseIdInputs, fault \in CreateOrderFaults :
         CreateOrder(u, c, fault) =>
            IF last'.res = "ok"
            THEN /\ \E r \in orders' :
                        /\ orders' \ orders = {r}
                        /\ r.id = last'.order /\ r.status = "PENDING" /\ ~r.isPaid
                        /\ r.studentId = u /\ r.courseId = c
                 /\ orders \subseteq orders'
                 /\ Cardinality(FindEnrollment(enrollments', u, c)) = 1
                 /\ \A e \in FindEnrollment(enrollments', u, c) : e.orderId = last'.order
            ELSE orders' = orders]_vars

\* C15: once verifyPayment has moved an order row to the paid state, no
\* later step changes the row: its status, isPaid and paidAt stay as the
\* first successful verifyPayment wrote them, also when that verifyPayment
\* is replayed for the same order.
C15_PaidOrderRowFrozen ==
    [][\A r \in orders : r.isPaid => r \in orders']_vars

\* C16: a verifyPayment that fails after its first write does not leave its
\* order row paid (COMPLETED, isPaid) while the enrollment of the order's
\* student in the order's course is missing or a lecture of that course is
\* not unlocked for the student.
C16_FailureLeavesNoPaidWithoutAccess ==
    [][(last'.op = "verifyPayment" /\ last'.res = "DatabaseError" /\ db' # db) =>
         \A r \in FindByRazorpayOrderId(orders', last'.order) :
            (r.isPaid /\ r.status = "COMPLETED") =>
               /\ FindEnrollment(enrollments', r.studentId, r.courseId) # {}
               /\ \A l \in CourseLectures(lectures', r.courseId) :
                      IsUnlocked(progress', r.studentId, l.id)]_vars

\* The order o is COMPLETED, its student is enrolled in its course, every
\* lecture of the course is unlocked for the student, and the verifyPayment
\* just served for o returned success.
Reconciled(o) ==
    /\ last.op = "verifyPayment" /\ last.res = "success" /\ last.order = o
    /\ \E r \in FindByRazorpayOrderId(orders, o) :
          /\ r.status = "COMPLETED" /\ r.isPaid
          /\ FindEnrollment(enrollments, r.studentId, r.courseId) # {}
          /\ \A l \in CourseLectures(lectures, r.courseId) :
                 IsUnlocked(progress, r.studentId, l.id)

\* C17: when the gateway reports an order paid and verifyPayment is
\* delivered again after every failure, and the failures end, then
\* eventually the order is COMPLETED, the enrollment of its (student,
\* course) exists, every lecture of the course is unlocked and
\* verifyPayment has returned success.
C17_RedeliveryReconciles ==
    \A o \in OrderIds :
        (gateway[o] = "paid" /\ FindByRazorpayOrderId(orders, o) # {}) ~> Reconciled(o)

\* A delivery that directly follows a failed delivery for the same order
\* reconciles it.
C17_Witness ==
    \E o \in OrderIds : Reconciled(o) /\ last.redelivery /\ last.alreadyPaid

\* C18: when the gateway status query of verifyPayment fails (the gateway
\* is not configured or the one orders.fetch call rejects), verifyPayment
\* ends with the gateway error of that single attempt and changes no
\* order, enrollment or lecture progress row.
C18_GatewayFailureChangesNothing ==
    [][last'.op = "verifyPayment" =>
         \A u \in Users, o \in OrderIds, c \in CourseIdInputs :
            VerifyPayment(u, o, c, "gateway") =>
               /\ last'.res = "GatewayUnavailable"
               /\ UNCHANGED <<orders, enrollments, progress>>]_vars

\* The query failed for an order the gateway holds as paid and whose row is
\* still unpaid: a second attempt inside the call would have written.
C18_Witness ==
    /\ last.op = "verifyPayment" /\ last.res = "GatewayUnavailable"
    /\ last.order # NoOrder /\ gateway[last.order] = "paid"
    /\ \E r \in FindByRazorpayOrderId(orders, last.order) : ~r.isPaid

\* C19: the reads checkCourseEnrollment and getCourseLectureProgress never
\* raise: asked for a user, a course or a user record that does not exist
\* they answer false or the empty list, and they change no row.
C19_ReadsNeverRaise ==
    [][last'.op \in {"checkCourseEnrollment", "getCourseLectureProgress"} =>
         /\ last'.res # "error"
         /\ (last'.user \notin Users \cup ClerkIds \/ last'.course \notin Courses)
                => last'.res \in {"false", "empty"}
         /\ UNCHANGED <<lectures, orders, enrollments, progress>>]_vars

C21_ReadBackAndRepair ==
    [][(last'.op = "verifyPayment" /\ last'.res = "success") =>
         LET acc == VerifyLectureAccess(progress', lectures', last'.user, last'.course)
             unlocked == {r \in CourseProgress(progress', last'.user, last'.course) : r.isUnlocked}
         IN /\ acc.unlockedLectures = Cardinality(unlocked)
            /\ Cardinality(unlocked) >= acc.totalLectures
            /\ FindEnrollment(enrollments', last'.user, last'.course) # {}]_vars

\* C22: initializeLectureProgress, taking the course's lectures in ascending
\* position, stores isUnlocked = true for a lecture exactly when the lecture
\* is free, or it is the first lecture and the student holds a paid
\* enrollment, or the student holds a paid enrollment and the preceding
\* lecture's progress row has isCompleted = true.
C22_InitializeUnlockRule ==
    [][(last'.op = "initializeLectureProgress" /\ last'.res = "ok") =>
         \A k \in ProgressCallers, c \in Courses :
            InitializeLectureProgress(k, c) =>
               \A u \in ResolveUserId(k) :
                  \E sq \in SortedLectures(lectures, c) :
                     \A i \in DOMAIN sq :
                        IsUnlocked(progress', u, sq[i].id) <=>
                           \/ sq[i].isFree
                           \/ i = 1 /\ HoldsPaidEnrollment(u, c)
                           \/ /\ i > 1 /\ HoldsPaidEnrollment(u, c)
                              /\ IsCompleted(progress, u, sq[i - 1].id)]_vars

\* C23: the unlock loop that verifyPayment runs changes only isUnlocked: a
\* progress row that exists keeps its other fields, and a row of another
\* student or of another course than the order's is left as it is.
C23_UnlockChangesOnlyIsUnlocked ==
    [][last'.op = "verifyPayment" =>
         \A r \in progress :
            \/ r \in progress'
            \/ \E o \in FindByRazorpayOrderId(orders, last'.order) :
                  /\ r.userId = o.studentId /\ r.courseId = o.courseId
                  /\ [r EXCEPT !.isUnlocked = TRUE] \in progress']_vars

\* C24: when the two confirmations of one paid order have both finished,
\* both returned success, the order row holds status, isPaid, paidAt and
\* payment id as one of the two calls wrote them, the enrollment of the
\* order's pair is the one row pointing at the order, and exactly the
\* course's lectures are unlocked for the student, as after a single call.
C24_ConcurrentConfirmations ==
    (calls["webhook"].pc = "done" /\ calls["client"].pc = "done") =>
        /\ calls["webhook"].res = "success" /\ calls["client"].res = "success"
        /\ \E p \in {"webhook", "client"} :
              orders = {MarkPaid(PendingOrder, calls[p].at, calls[p].pay)}
        /\ enrollments = CreateOrUpdateEnrollment({}, "u1", "c1", PendingOrder.id)
        /\ UnlockedPairs(progress) = {<<"u1", l.id>> : l \in CourseLectures(lectures, "c1")}

\* Both confirmations finished and each ran while the other was in flight.
C24_Witness ==
    /\ calls["webhook"].pc = "done" /\ calls["client"].pc = "done"
    /\ calls["webhook"].raced /\ calls["client"].raced

\* C25: when a completeLecture and the unlock loop of a confirmation have
\* both finished on one (student, lecture) key, the key has exactly one
\* row, and the row is unlocked and completed: neither write is lost.
C25_NoLostProgressWrite ==
    \A p \in {"webhook", "client"} :
        (calls["student"].pc = "done" /\ calls[p].pc = "done") =>
            /\ Cardinality(FindProgress(progress, "u1", calls["student"].lecture)) = 1
            /\ \A r \in FindProgress(progress, "u1", calls["student"].lecture) :
                  r.isUnlocked /\ r.isCompleted

\* The completion ran while a confirmation was in flight, both finished.
C25_Witness ==
    /\ calls["student"].pc = "done" /\ calls["student"].raced
    /\ calls["student"].res = "ok"
    /\ calls["webhook"].pc = "done" /\ calls["webhook"].raced

\* C26: a verifyPayment whose authenticated user or course id differs from
\* the student or the course of the order row creates or changes no
\* enrollment of the request's (user, course) pair and unlocks no lecture
\* of the request's course for the request's user.
C26_OnlyTheOrdersPair ==
    [][(last'.op = "verifyPayment" /\ requests' = requests + 1) =>
         \A o \in FindByRazorpayOrderId(orders, last'.order) :
            (o.studentId # last'.user \/ o.courseId # last'.course) =>
               /\ FindEnrollment(enrollments', last'.user, last'.course)
                     = FindEnrollment(enrollments, last'.user, last'.course)
               /\ \A l \in CourseLectures(lectures, last'.course) :
                     IsUnlocked(progress', last'.user, l.id) => IsUnlocked(progress, last'.user, l.id)]_vars

\* C27: in every reachable state the courseId of each lecture progress row
\* is the courseId of the lecture the row references, and so a student
\* never has more progress rows for a course than the course has lectures.
C27_ProgressCourseMatchesLecture ==
    /\ \A r \in progress : \A l \in lectures :
          l.id = r.lectureId => r.courseId = l.courseId
    /\ \A u \in Users, c \in Courses :
          Cardinality(CourseProgress(progress, u, c)) <= Cardinality(CourseLectures(lectures, c))

\* C28: in every reachable state every order row has isPaid = true exactly
\* when its status is COMPLETED, and paidAt set exactly when isPaid = true.
C28_PaidFieldsAgree ==
    \A r \in orders :
        /\ r.isPaid <=> r.status = "COMPLETED"
        /\ r.paidAt # NoDate <=> r.isPaid

\* A paid order next to a pending one, after a verifyPayment that failed
\* behind its order update.
C28_Witness ==
    /\ last.op = "verifyPayment" /\ last.res = "DatabaseError"
    /\ \E r \in orders : r.id = last.order /\ r.isPaid /\ r.paidAt # NoDate
    /\ \E r \in orders : ~r.isPaid /\ r.status = "PENDING"

\* C29: once a student has a COMPLETED order for a course, the order that
\* the student's enrollment for the course references is a COMPLETED order,
\* also after a later createOrder of the student for the same course.
C29_EnrollmentKeepsPaidOrder ==
    \A u \in Users, c \in Courses :
        (\E r \in orders : r.studentId = u /\ r.courseId = c /\ r.status = "COMPLETED") =>
            \A e \in FindEnrollment(enrollments, u, c) :
                \E r \in orders : r.id = e.orderId /\ r.status = "COMPLETED"

\* C30: reorderLectures is all-or-nothing: when an entry of the request
\* names a lecture that does not exist or belongs to another course, the
\* call fails and no position changes; and no call changes the position of
\* a lecture the request does not name, or the courseId of any lecture.
C30_ReorderAllOrNothing ==
    [][last'.op = "reorderLectures" =>
         \A c \in Courses : \A req \in CatalogueRequests(lectures) :
            ReorderLectures(c, req) =>
               /\ (\E i \in DOMAIN req :
                      ~\E r \in lectures : r.id = req[i].id /\ r.courseId = c)
                     => (last'.res = "error" /\ lectures' = lectures)
               /\ {[id |-> r.id, courseId |-> r.courseId] : r \in lectures'}
                     = {[id |-> r.id, courseId |-> r.courseId] : r \in lectures}
               /\ \A r \in lectures :
                     (\A i \in DOMAIN req : req[i].id # r.id) => r \in lectures']_vars

\* A reorder was refused after an earlier one had moved a lecture.
C30_Witness ==
    /\ last.op = "reorderLectures" /\ last.res = "error"
    /\ \E r \in lectures : \E r0 \in InitialLectures :
          r.id = r0.id /\ r.position # r0.position

====
